---- MODULE Spec2Model ----
(***************************************************************************)
(* Outbound WhatsApp notification pipeline of the polymer trading app:     *)
(* WhatsAppRateLimiter, WhatsAppCircuitBreaker, WhatsAppService and        *)
(* DealService.createDeal, run on the single-threaded JavaScript event     *)
(* loop.  Time is counted in ticks; Date.now() is the variable now.        *)
(***************************************************************************)
EXTENDS Integers, Sequences, FiniteSets, TLC

(***************************************************************************)
(* Bounds of the model and scaled configuration values.                    *)
(***************************************************************************)
\* RateLimiterConfig.maxRequestsPerMinute (default 80) is MaxRequests or one less
MaxRequests == 4
\* RateLimiterConfig.windowMs (default 60000 ms), in ticks; two ticks, so that
\* requests of different ages share a window
windowMs == 2
\* upper bound, in ticks, of the random jitter wait() adds to a delay
MaxJitter == 1
\* CircuitBreakerConfig.failureThreshold (default 10), scaled
failureThreshold == 2
\* CircuitBreakerConfig.timeoutMs (default 300000 ms), in ticks
timeoutMs == 2
\* cleanOldMetrics resets the counters once requests exceeds this value;
\* the source compares with 1000, the model scales the comparison down
CounterResetLimit == 5
\* Date.now() when the process starts; lastFailureTime starts at 0, long before
StartTime == 4
\* ticks the clock advances after StartTime
MaxTicks == 2
\* createDeal calls of one behaviour
MaxDeals == 2
\* simulateRequests(count): the largest count
MaxSimulated == 2
\* simulateRequests spaces its timestamps 1000 ms apart; in ticks, scaled
SimulatedSpacing == 1

(***************************************************************************)
(* Program constants.                                                      *)
(***************************************************************************)
\* validateInputs: phoneNumber.length < 10 is rejected
MinPhoneLength == 10
\* validateInputs: phoneNumber.length > 16 is rejected
MaxPhoneLength == 16
\* validateInputs: message.length > 4096 is rejected
MaxMessageLength == 4096
\* getStatus: remaining <= 5 is reported as 'warning'
WarningRemaining == 5
\* createDeal's catch block reports failureCount 4 ("Assuming 4 recipients")
AssumedRecipients == 4

\* Object.entries(config.recipients), in the order loadConfigFromEnv builds it
RoleOrder == <<"accounts", "logistics", "boss1", "bossog">>
Roles == {RoleOrder[i] : i \in 1..Len(RoleOrder)}

Max(a, b) == IF a >= b THEN a ELSE b

(***************************************************************************)
(* WhatsAppRateLimiter: pure parts.  reqs is this.requests (timestamps),   *)
(* t is Date.now(), limit is config.maxRequestsPerMinute.                  *)
(***************************************************************************)
cleanOldRequests(reqs, t) == SelectSeq(reqs, LAMBDA r : r > t - windowMs)

\* getStatus(): cleans the window, then classifies it
getStatus(reqs, t, limit) ==
    LET cleaned   == cleanOldRequests(reqs, t)
        remaining == limit - Len(cleaned)
        waitTime  == IF Len(cleaned) > 0
                     THEN windowMs - (t - cleaned[1])
                     ELSE windowMs
    IN  IF remaining <= 0
        THEN [current |-> "limited", remaining |-> 0,
              waitTime |-> Max(0, waitTime), requests |-> cleaned]
        ELSE IF remaining <= WarningRemaining
        THEN [current |-> "warning", remaining |-> remaining,
              waitTime |-> 0, requests |-> cleaned]
        ELSE [current |-> "ok", remaining |-> remaining,
              waitTime |-> 0, requests |-> cleaned]

recordRequest(reqs, t, limit) ==
    LET pushed == Append(reqs, t)
    IN  IF Len(pushed) > limit * 2
        THEN SubSeq(pushed, Len(pushed) - limit + 1, Len(pushed))
        ELSE pushed

\* wait(ms) as it would be if its promise never resolved
WakeTimesNever(ms, t) == {}

\* wait(ms): the times at which the timer may fire (delay plus jitter)
WakeTimes(ms, t) == { t + ms + j : j \in 0..(IF ms > 0 THEN MaxJitter ELSE 0) }

(***************************************************************************)
(* WhatsAppCircuitBreaker: pure parts.  cb is the breaker's fields.        *)
(***************************************************************************)
BreakerStates == {"CLOSED", "OPEN", "HALF_OPEN"}

\* the fields of a breaker constructed at time t
newBreaker(t) == [state |-> "CLOSED", failures |-> 0, successes |-> 0,
                  requests |-> 0, lastFailureTime |-> 0, stateChangedAt |-> t]

\* getNextAttemptTime() as it would be without the timeout added
getNextAttemptTimeNoTimeout(cb) == cb.lastFailureTime

\* shouldAttemptReset() as it would be if it measured from the last transition
shouldAttemptResetSinceChange(cb, t) == t - cb.stateChangedAt >= timeoutMs

shouldAttemptReset(cb, t) == t - cb.lastFailureTime >= timeoutMs

getNextAttemptTime(cb) == cb.lastFailureTime + timeoutMs

transitionTo(cb, newState, t) ==
    [cb EXCEPT !.state = newState, !.stateChangedAt = t]

\* resetCounters() as it would be if it left the failure count
resetCountersKeepFailures(cb) ==
    [cb EXCEPT !.successes = 0, !.requests = cb.failures]

resetCounters(cb) ==
    [cb EXCEPT !.failures = 0, !.successes = 0, !.requests = 0]

\* cleanOldMetrics() as it would be if it never reset the counters
cleanOldMetricsNever(cb) == cb

cleanOldMetrics(cb) ==
    IF cb.requests > CounterResetLimit THEN resetCounters(cb) ELSE cb

\* onSuccess() as it would be if a success cleared the failure count
onSuccessClearsFailures(cb, t) ==
    LET counted == [cb EXCEPT !.successes = @ + 1, !.failures = 0,
                              !.requests = cb.successes + 1]
        decided == IF counted.state = "HALF_OPEN"
                   THEN resetCounters(transitionTo(counted, "CLOSED", t))
                   ELSE counted
    IN  cleanOldMetrics(decided)

onSuccess(cb, t) ==
    LET counted == [cb EXCEPT !.successes = @ + 1, !.requests = @ + 1]
        decided == IF counted.state = "HALF_OPEN"
                   THEN resetCounters(transitionTo(counted, "CLOSED", t))
                   ELSE counted
    IN  cleanOldMetrics(decided)

\* onFailure() as it would be if only HALF_OPEN led to OPEN
onFailureNoThreshold(cb, t) ==
    LET counted == [cb EXCEPT !.failures = @ + 1, !.requests = @ + 1,
                              !.lastFailureTime = t]
        decided == IF counted.state = "HALF_OPEN"
                   THEN transitionTo(counted, "OPEN", t)
                   ELSE counted
    IN  cleanOldMetrics(decided)

onFailure(cb, t) ==
    LET counted == [cb EXCEPT !.failures = @ + 1, !.requests = @ + 1,
                              !.lastFailureTime = t]
        decided == IF counted.state = "HALF_OPEN"
                   THEN transitionTo(counted, "OPEN", t)
                   ELSE IF counted.state = "CLOSED"
                           /\ counted.failures >= failureThreshold
                        THEN transitionTo(counted, "OPEN", t)
                        ELSE counted
    IN  cleanOldMetrics(decided)

\* execute() as it would be if one recorded failure were enough to reject
executeAdmitAfterFailure(cb, t) ==
    IF cb.state = "OPEN" \/ cb.failures > 0
    THEN [admitted |-> FALSE, cb |-> cb]
    ELSE [admitted |-> TRUE, cb |-> cb]

\* execute() as it would be without the check of the state
executeAdmitAlways(cb, t) == [admitted |-> TRUE, cb |-> cb]

\* execute(), up to the call of operation(): the breaker after the check of
\* the state, and whether the call is admitted or rejected
executeAdmit(cb, t) ==
    IF cb.state = "OPEN"
    THEN IF shouldAttemptReset(cb, t)
         THEN [admitted |-> TRUE, cb |-> transitionTo(cb, "HALF_OPEN", t)]
         ELSE [admitted |-> FALSE, cb |-> cb]
    ELSE [admitted |-> TRUE, cb |-> cb]

(***************************************************************************)
(* WhatsAppService: pure parts.  A phone number is known by whether it     *)
(* starts with '+', by whether every character after the first is a digit, *)
(* and by its length (0: the empty string); a message by its length.       *)
(***************************************************************************)
EmptyPhone == [plus |-> FALSE, digits |-> TRUE, len |-> 0]
ValidPhone == [plus |-> TRUE, digits |-> TRUE, len |-> MinPhoneLength + 3]
\* a number such as "(+91) 9876543210": validatePhoneNumber strips the
\* punctuation before it looks for the '+', sendMessage gets the raw string
RawPhone == [plus |-> FALSE, digits |-> FALSE, len |-> MaxPhoneLength]
ShortPhone == [plus |-> TRUE, digits |-> TRUE, len |-> MinPhoneLength - 1]
LongPhone == [plus |-> TRUE, digits |-> TRUE, len |-> MaxPhoneLength + 1]

\* validateInputs() as it would be without the check of the leading '+'
validateInputsNoPlusCheck(phoneNumber, message) ==
    IF phoneNumber.len = 0 THEN "Phone number is required"
    ELSE IF phoneNumber.len < MinPhoneLength \/ phoneNumber.len > MaxPhoneLength
         THEN "Invalid phone number length"
    ELSE IF message.len = 0 THEN "Message text is required"
    ELSE IF message.len > MaxMessageLength THEN "Message text too long"
    ELSE "ok"

\* validateInputs(phoneNumber, message): "ok", or the check that throws
validateInputs(phoneNumber, message) ==
    IF phoneNumber.len = 0 THEN "Phone number is required"
    ELSE IF ~phoneNumber.plus THEN "Phone number must start with country code (+)"
    ELSE IF phoneNumber.len < MinPhoneLength \/ phoneNumber.len > MaxPhoneLength
         THEN "Invalid phone number length"
    ELSE IF message.len = 0 THEN "Message text is required"
    ELSE IF message.len > MaxMessageLength THEN "Message text too long"
    ELSE "ok"

\* what the transport does with a call: a 2xx response with a message id, an
\* HTTP error status, or a rejected fetch
Outcomes == {"ok", "http500", "ECONNREFUSED"}

\* handleApiError(response): the error makeApiCall throws for a status
handleApiError(outcome) ==
    CASE outcome = "http401" ->
             [name |-> "WhatsAppAuthError", type |-> "AUTH_ERROR", code |-> "none"]
      [] outcome = "http429" ->
             [name |-> "WhatsAppRateLimitError", type |-> "RATE_LIMIT", code |-> "none"]
      [] outcome = "http400" ->
             [name |-> "WhatsAppValidationError", type |-> "VALIDATION_ERROR", code |-> "none"]
      [] outcome \in {"http500", "http502", "http503", "http504"} ->
             [name |-> "WhatsAppNetworkError", type |-> "NETWORK_ERROR", code |-> "none"]
      [] OTHER ->
             [name |-> "WhatsAppServiceError", type |-> "UNKNOWN_ERROR", code |-> "none"]

\* the error a failed makeApiCall throws: fetch rejects with an error code,
\* or handleApiError throws for the status
thrownBy(outcome) ==
    IF outcome \in {"ECONNREFUSED", "ETIMEDOUT"}
    THEN [name |-> "Error", type |-> "none", code |-> outcome]
    ELSE handleApiError(outcome)

ServiceErrorNames == {"WhatsAppServiceError", "WhatsAppAuthError",
                      "WhatsAppRateLimitError", "WhatsAppNetworkError",
                      "WhatsAppValidationError"}

\* handleError(error) as it would be if it passed on what it does not know
handleErrorPassesOn(error) ==
    IF error.name \in ServiceErrorNames THEN error.type ELSE "none"

\* handleError(error): the type of the WhatsAppError a thrown error becomes
handleError(error) ==
    IF error.name \in ServiceErrorNames THEN error.type
    ELSE IF error.name = "CircuitBreakerOpenError" THEN "NETWORK_ERROR"
    ELSE IF error.code \in {"ECONNREFUSED", "ETIMEDOUT"} THEN "NETWORK_ERROR"
    ELSE "UNKNOWN_ERROR"

ValidationError ==
    [name |-> "WhatsAppValidationError", type |-> "VALIDATION_ERROR", code |-> "none"]
BreakerOpenError == [name |-> "CircuitBreakerOpenError", type |-> "none", code |-> "none"]
RangeError == [name |-> "RangeError", type |-> "none", code |-> "none"]

\* a deal as far as message rendering goes: formatDate throws a RangeError
\* on an invalid Date, the accounts text carries the sale comments, and a
\* deal that lacks a required field (complete is FALSE) renders all the same
GoodDeal == [dateValid |-> TRUE, longComments |-> FALSE, complete |-> TRUE]
DealInputs == { GoodDeal,
                [dateValid |-> TRUE, longComments |-> TRUE, complete |-> TRUE],
                [dateValid |-> FALSE, longComments |-> FALSE, complete |-> TRUE],
                [dateValid |-> TRUE, longComments |-> FALSE, complete |-> FALSE] }

\* generateMessage(role, deal), for a deal whose date formats
generateMessage(role, deal) ==
    IF deal.longComments /\ role = "accounts"
    THEN [len |-> MaxMessageLength + 1]
    ELSE [len |-> MaxMessageLength - 1]

NoResult == [success |-> FALSE, type |-> "pending", nextAttemptTime |-> -1]
Success == [success |-> TRUE, type |-> "none", nextAttemptTime |-> -1]
Failure(error) == [success |-> FALSE, type |-> handleError(error), nextAttemptTime |-> -1]

(***************************************************************************)
(* State.                                                                  *)
(***************************************************************************)
VARIABLES
    now,            \* Date.now()
    maxRequestsPerMinute,   \* WhatsAppRateLimiter.config.maxRequestsPerMinute
    requests,       \* WhatsAppRateLimiter.requests
    breaker,        \* the fields of the WhatsAppCircuitBreaker
    env,            \* process.env: the feature toggle, and whether the rest validates
    recipients,     \* config.recipients
    service,        \* globalWhatsAppService: "none" or "created"
    dealPc,         \* where the createDeal call stands
    deal,           \* the deal of the createDeal call
    deals,          \* createDeal calls so far
    results,        \* sendDealNotifications: results, one entry per push
    errors,         \* sendDealNotifications: errors, one entry per push
    cdResult,       \* what createDeal returned
    pc,             \* where each role's sendMessage call stands
    failing,        \* the roles whose downstream call the transport fails
    wakeAt,         \* when the timer of wait() fires
    admittedIn,     \* the breaker state execute() found when it called operation()
    rejectedUntil,  \* nextAttemptTime of the CircuitBreakerOpenError thrown
    result,         \* the SendMessageResult
    proceeds,       \* history: when waitIfNeeded() let a caller go on
    streak,         \* history: failed operations since the last success
    streakStart,    \* history: the breaker state when the streak began
    resetInStreak,  \* history: cleanOldMetrics reset the counters in the streak
    dealStart,      \* history: breaker and limiter when the fan-out started
    forcedAt,       \* history: when forceOpen() opened the breaker, -1 otherwise
    fn,             \* the function applied on its own, "none" before the call
    arg,            \* the arguments of that call
    ret             \* what the call returned or threw

\* the state of the service and of the createDeal call
svars == <<now, maxRequestsPerMinute, requests, breaker, env, recipients, service,
           dealPc, deal, deals, results, errors, cdResult, pc, failing, wakeAt,
           admittedIn, rejectedUntil, result, proceeds, streak, streakStart,
           resetInStreak, dealStart, forcedAt>>

\* the state of a function applied on its own
fnvars == <<fn, arg, ret>>

vars == <<svars, fnvars>>

NoArg == [kind |-> "none"]
NoRet == [kind |-> "none"]

NoCd == [success |-> FALSE, dealId |-> FALSE, enabled |-> FALSE, anySuccess |-> FALSE,
         successCount |-> -1, failureCount |-> -1, errors |-> -1]

\* the count as it would be if the filter let every result through
CountUnfiltered(rs, ok) == Cardinality(rs)

Count(rs, ok) == Cardinality({ x \in rs : x.success = ok })

\* createDeal's result as it would be without the inner try/catch: what the
\* notification code throws reaches the outer catch
createDealResultNoInnerCatch(notification, rs, errs) ==
    CASE notification = "disabled" ->
             [success |-> TRUE, dealId |-> TRUE, enabled |-> FALSE,
              anySuccess |-> FALSE, successCount |-> 0, failureCount |-> 0,
              errors |-> 0]
      [] notification = "threw" ->
             [success |-> FALSE, dealId |-> FALSE, enabled |-> FALSE,
              anySuccess |-> FALSE, successCount |-> 0, failureCount |-> 0,
              errors |-> 0]
      [] OTHER ->
             [success |-> TRUE, dealId |-> TRUE, enabled |-> TRUE,
              anySuccess |-> Cardinality({ x \in rs : x.success }) > 0,
              successCount |-> Cardinality({ x \in rs : x.success }),
              failureCount |-> Cardinality({ x \in rs : ~x.success }),
              errors |-> Cardinality(errs)]

\* what createDeal returns: notification is "disabled" (the toggle is off),
\* "threw" (the inner try block threw) or "sent" (sendDealNotifications
\* returned, with results rs and errors errs)
createDealResult(notification, rs, errs) ==
    CASE notification = "disabled" ->
             [success |-> TRUE, dealId |-> TRUE, enabled |-> FALSE,
              anySuccess |-> FALSE, successCount |-> 0, failureCount |-> 0,
              errors |-> 0]
      [] notification = "threw" ->
             [success |-> TRUE, dealId |-> TRUE, enabled |-> TRUE,
              anySuccess |-> FALSE, successCount |-> 0,
              failureCount |-> AssumedRecipients, errors |-> 1]
      [] OTHER ->
             [success |-> TRUE, dealId |-> TRUE, enabled |-> TRUE,
              anySuccess |-> Count(rs, TRUE) > 0,
              successCount |-> Count(rs, TRUE),
              failureCount |-> Count(rs, FALSE),
              errors |-> Cardinality(errs)]

\* the configurations the model starts from: every recipient valid, one
\* recipient left empty, or one written with punctuation before the '+'
RecipientConfigs ==
    { [r \in Roles |-> ValidPhone],
      [r \in Roles |-> IF r = "logistics" THEN EmptyPhone ELSE ValidPhone],
      [r \in Roles |-> IF r = "bossog" THEN RawPhone ELSE ValidPhone] }

\* FEATURE_WHATSAPP_MESSAGING, and whether validateConfigOrThrow accepts the rest
Envs == { [messaging |-> TRUE, configValid |-> TRUE],
          [messaging |-> TRUE, configValid |-> FALSE],
          [messaging |-> FALSE, configValid |-> TRUE] }

\* isEnabled() as it would be if it ignored the toggle
isEnabledAlways(e) == TRUE

\* isWhatsAppEnabled(): FEATURE_WHATSAPP_MESSAGING === 'true'
isEnabled(e) == e.messaging

\* validateConfigOrThrow(config): TRUE when it does not throw
validateConfigOrThrow(e) == e.messaging /\ e.configValid

\* what the transport is set to fail, by role
Mocks == { {}, {"accounts"}, {"accounts", "logistics"}, Roles }

\* the createDeal calls of the model: a well-formed deal under each mock, and
\* the deals whose message does not render or is too long
DealCases ==
    { [deal |-> GoodDeal, failing |-> m] : m \in Mocks } \cup
    { [deal |-> d, failing |-> {}] : d \in DealInputs \ {GoodDeal} }

ServiceInit ==
    /\ now = StartTime
    /\ maxRequestsPerMinute \in {MaxRequests - 1, MaxRequests}
    /\ requests = <<>>
    /\ breaker = newBreaker(StartTime)
    /\ env \in Envs
    /\ recipients \in RecipientConfigs
    /\ service = "none"
    /\ dealPc = "idle"
    /\ deal = GoodDeal
    /\ deals = 0
    /\ results = {}
    /\ errors = {}
    /\ cdResult = NoCd
    /\ pc = [r \in Roles |-> "idle"]
    /\ failing = {}
    /\ wakeAt = [r \in Roles |-> 0]
    /\ admittedIn = [r \in Roles |-> "none"]
    /\ rejectedUntil = [r \in Roles |-> -1]
    /\ result = [r \in Roles |-> NoResult]
    /\ proceeds = <<>>
    /\ streak = 0
    /\ streakStart = "none"
    /\ resetInStreak = FALSE
    /\ dealStart = [state |-> "none", remaining |-> 0]
    /\ forcedAt = -1

Init ==
    /\ ServiceInit
    /\ fn = "none"
    /\ arg = NoArg
    /\ ret = NoRet

(***************************************************************************)
(* The event loop.  A continuation of an await that is already resolved    *)
(* (a microtask) runs before any timer, response or new request.           *)
(***************************************************************************)
\* Promise.allSettled as it would be if it resolved with the first send over
\* (a race rather than a full settlement wait)
AnySettled == \E r \in Roles : pc[r] = "done"

\* Promise.allSettled(sendPromises) resolves once every role's send is over
AllSettled == \A r \in Roles : pc[r] = "done"

MicrotaskPending ==
    \/ \E r \in Roles : pc[r] \in {"start", "resumed"}
    \/ dealPc = "awaiting" /\ AllSettled

\* the roles before r in Object.entries(config.recipients)
Before(r) == { RoleOrder[i] : i \in { j \in 1..Len(RoleOrder) :
                 \E k \in 1..Len(RoleOrder) : RoleOrder[k] = r /\ j < k } }

\* a role's sendMessage call ends with result res, which the map callback
\* pushes to results (and its error to errors)
Finish(r, res) ==
    /\ result' = [result EXCEPT ![r] = res]
    /\ pc' = [pc EXCEPT ![r] = "done"]
    /\ results' = results \cup {[role |-> r, success |-> res.success]}
    /\ errors' = IF ~res.success
                 THEN errors \cup {[role |-> r, type |-> res.type]}
                 ELSE errors

Proceed == Append(SelectSeq(proceeds, LAMBDA p : p > now - windowMs), now)

(***************************************************************************)
(* DealService.createDeal, up to the await of sendDealNotifications: the   *)
(* toggle, the service lookup, and the start of the four role sends.       *)
(***************************************************************************)
CreateDeal(c) ==
    /\ dealPc \in {"idle", "returned"}
    /\ deals < MaxDeals
    /\ deals' = deals + 1
    /\ deal' = c.deal
    /\ IF ~isEnabled(env)
       THEN \* isWhatsAppEnabled() is false
            /\ cdResult' = createDealResult("disabled", {}, {})
            /\ dealPc' = "returned"
            /\ UNCHANGED <<breaker, service, results, errors, pc, failing,
                           wakeAt, admittedIn, rejectedUntil, result, dealStart>>
       ELSE IF service = "none" /\ ~validateConfigOrThrow(env)
       THEN \* getGlobalWhatsAppService() throws, the inner catch reports it
            /\ cdResult' = createDealResult("threw", {}, {})
            /\ dealPc' = "returned"
            /\ UNCHANGED <<breaker, service, results, errors, pc, failing,
                           wakeAt, admittedIn, rejectedUntil, result, dealStart>>
       ELSE \* the service (with its limiter and breaker) is created on first
            \* use; sendDealNotifications maps over the recipients
            /\ service' = "created"
            /\ breaker' = IF service = "none" THEN newBreaker(now) ELSE breaker
            /\ cdResult' = NoCd
            /\ dealPc' = "awaiting"
            /\ results' = {}
            /\ errors' = {}
            /\ pc' = [r \in Roles |-> "start"]
            /\ failing' = c.failing
            /\ wakeAt' = [r \in Roles |-> 0]
            /\ admittedIn' = [r \in Roles |-> "none"]
            /\ rejectedUntil' = [r \in Roles |-> -1]
            /\ result' = [r \in Roles |-> NoResult]
            /\ dealStart' =
                   [state |-> breaker.state,
                    remaining |->
                        getStatus(requests, now, maxRequestsPerMinute).remaining]
    /\ UNCHANGED <<now, maxRequestsPerMinute, requests, env, recipients,
                   proceeds, streak, streakStart, resetInStreak>>
    /\ UNCHANGED <<fnvars, forcedAt>>

(***************************************************************************)
(* The synchronous start of one role's send: generateMessage, then         *)
(* sendMessage up to its first await, which takes in the synchronous part  *)
(* of waitIfNeeded (getStatus, then recordRequest or the timer of wait).   *)
(***************************************************************************)
SendStart(r) ==
    /\ pc[r] = "start"
    /\ \A q \in Before(r) : pc[q] # "start"
    /\ IF ~deal.dateValid
       THEN \* generateMessage throws; the catch of the map callback
            /\ Finish(r, Failure(RangeError))
            /\ UNCHANGED <<requests, wakeAt, proceeds>>
       ELSE IF \/ ~env.messaging
               \/ validateInputs(recipients[r], generateMessage(r, deal)) # "ok"
       THEN /\ Finish(r, Failure(ValidationError))
            /\ UNCHANGED <<requests, wakeAt, proceeds>>
       ELSE LET status == getStatus(requests, now, maxRequestsPerMinute)
            IN  IF status.current = "limited"
                THEN /\ requests' = status.requests
                     /\ \E w \in WakeTimes(status.waitTime, now) :
                            wakeAt' = [wakeAt EXCEPT ![r] = w]
                     /\ pc' = [pc EXCEPT ![r] = "sleeping"]
                     /\ UNCHANGED <<proceeds, result, results, errors>>
                ELSE /\ requests' = recordRequest(status.requests, now,
                                                  maxRequestsPerMinute)
                     /\ pc' = [pc EXCEPT ![r] = "resumed"]
                     /\ proceeds' = Proceed
                     /\ UNCHANGED <<wakeAt, result, results, errors>>
    /\ UNCHANGED <<now, maxRequestsPerMinute, breaker, env, recipients, service,
                   dealPc, deal, deals, cdResult, failing, admittedIn,
                   rejectedUntil, streak, streakStart, resetInStreak, dealStart>>
    /\ UNCHANGED <<fnvars, forcedAt>>

\* the timer of wait() fires: waitIfNeeded returns the time waited
TimerFire(r) ==
    /\ pc[r] = "sleeping"
    /\ now >= wakeAt[r]
    /\ ~MicrotaskPending
    /\ pc' = [pc EXCEPT ![r] = "resumed"]
    /\ proceeds' = Proceed
    /\ UNCHANGED <<now, maxRequestsPerMinute, requests, breaker, env, recipients,
                   service, dealPc, deal, deals, results, errors, cdResult,
                   failing, wakeAt, admittedIn, rejectedUntil, result, streak,
                   streakStart, resetInStreak, dealStart>>
    /\ UNCHANGED <<fnvars, forcedAt>>

(***************************************************************************)
(* sendMessage after the await of waitIfNeeded: circuitBreaker.execute up  *)
(* to the await of operation(), which has started the fetch.               *)
(***************************************************************************)
Admit(r) ==
    /\ pc[r] = "resumed"
    /\ \A q \in Roles : pc[q] # "start"
    /\ \A q \in Before(r) : pc[q] # "resumed"
    /\ LET e == executeAdmit(breaker, now)
       IN  IF e.admitted
           THEN /\ breaker' = e.cb
                /\ admittedIn' = [admittedIn EXCEPT ![r] = breaker.state]
                /\ pc' = [pc EXCEPT ![r] = "inflight"]
                /\ UNCHANGED <<rejectedUntil, result, results, errors>>
           ELSE /\ rejectedUntil' =
                       [rejectedUntil EXCEPT ![r] = getNextAttemptTime(breaker)]
                /\ Finish(r, Failure(BreakerOpenError))
                /\ UNCHANGED <<breaker, admittedIn>>
    /\ UNCHANGED <<now, maxRequestsPerMinute, requests, env, recipients, service,
                   dealPc, deal, deals, cdResult, failing, wakeAt, proceeds,
                   streak, streakStart, resetInStreak, dealStart>>
    /\ UNCHANGED <<fnvars, forcedAt>>

(***************************************************************************)
(* The fetch settles: the rest of execute (onSuccess or onFailure) and of  *)
(* sendMessage.                                                            *)
(***************************************************************************)
Settle(r, outcome) ==
    /\ pc[r] = "inflight"
    /\ ~MicrotaskPending
    /\ (outcome = "ok") = (r \notin failing)
    /\ IF outcome = "ok"
       THEN /\ breaker' = onSuccess(breaker, now)
            /\ Finish(r, Success)
            /\ streak' = 0
            /\ streakStart' = "none"
            /\ resetInStreak' = FALSE
       ELSE /\ breaker' = onFailure(breaker, now)
            /\ Finish(r, Failure(thrownBy(outcome)))
            /\ streak' = IF streak < failureThreshold THEN streak + 1 ELSE streak
            /\ streakStart' = IF streak = 0 THEN breaker.state ELSE streakStart
            /\ resetInStreak' = \/ streak > 0 /\ resetInStreak
                                \/ onFailure(breaker, now).requests = 0
    /\ UNCHANGED <<now, maxRequestsPerMinute, requests, env, recipients, service,
                   dealPc, deal, deals, cdResult, failing, wakeAt, admittedIn,
                   rejectedUntil, proceeds, dealStart>>
    /\ UNCHANGED <<fnvars, forcedAt>>

(***************************************************************************)
(* Promise.allSettled resolves: sendDealNotifications counts and returns,  *)
(* createDeal maps the result and returns.                                 *)
(***************************************************************************)
Return ==
    /\ dealPc = "awaiting"
    /\ AllSettled
    /\ cdResult' = createDealResult("sent", results, errors)
    /\ dealPc' = "returned"
    /\ UNCHANGED <<now, maxRequestsPerMinute, requests, breaker, env, recipients,
                   service, deal, deals, results, errors, pc, failing, wakeAt,
                   admittedIn, rejectedUntil, result, proceeds, streak,
                   streakStart, resetInStreak, dealStart>>
    /\ UNCHANGED <<fnvars, forcedAt>>

\* time passes between two tasks of the event loop; a due timer fires first
Tick ==
    /\ now < StartTime + MaxTicks
    /\ ~MicrotaskPending
    /\ \A r \in Roles : pc[r] = "sleeping" => wakeAt[r] > now
    /\ now' = now + 1
    /\ UNCHANGED <<maxRequestsPerMinute, requests, breaker, env, recipients,
                   service, dealPc, deal, deals, results, errors, cdResult, pc,
                   failing, wakeAt, admittedIn, rejectedUntil, result, proceeds,
                   streak, streakStart, resetInStreak, dealStart>>
    /\ UNCHANGED <<fnvars, forcedAt>>

Next ==
    \/ \E c \in DealCases : CreateDeal(c)
    \/ \E r \in Roles : SendStart(r)
    \/ \E r \in Roles : TimerFire(r)
    \/ \E r \in Roles : Admit(r)
    \/ \E r \in Roles, outcome \in Outcomes : Settle(r, outcome)
    \/ Return
    \/ Tick

Spec == Init /\ [][Next]_vars

(***************************************************************************)
(* Functions applied on their own: the arguments are drawn in the initial  *)
(* state, one step applies the function, the service stays as constructed. *)
(***************************************************************************)
\* validatePhoneNumber: fewer than 10 digits after the '+' are rejected
MinDigits == 10
\* validatePhoneNumber: more than 15 digits after the '+' are rejected
MaxDigits == 15

\* lengths of the phone numbers tried: around both limits of validateInputs
PhoneLengths == {0, MinPhoneLength - 1, MinPhoneLength, MinPhoneLength + 1,
                 MaxPhoneLength, MaxPhoneLength + 1}

PhoneInputs ==
    { p \in [plus : BOOLEAN, digits : BOOLEAN, len : PhoneLengths] :
          p.len = 0 => ~p.plus /\ p.digits }

MessageInputs == { [len |-> 0], [len |-> 1], [len |-> MaxMessageLength],
                   [len |-> MaxMessageLength + 1] }

\* sendMessage(phoneNumber, message), as the test endpoint calls it
SendMessageArgs ==
    { [kind |-> "sendMessage", phoneNumber |-> p, message |-> m] :
          p \in PhoneInputs, m \in MessageInputs }

\* parseInt(response.headers.get('Retry-After') || '60')
DefaultRetryAfter == 60

\* the Retry-After header of a response: absent, a number of seconds, or an
\* HTTP date
RetryAfterHeaders == { [kind |-> "absent", value |-> 0],
                       [kind |-> "seconds", value |-> 1],
                       [kind |-> "seconds", value |-> 30],
                       [kind |-> "date", value |-> 0] }

\* parseInt of the header, "NaN" when the text does not start with a number
parseRetryAfter(header) ==
    CASE header.kind = "absent" -> DefaultRetryAfter
      [] header.kind = "seconds" -> header.value
      [] OTHER -> "NaN"

\* handleApiError(response) in full: the error thrown for a status, with the
\* retryAfter and httpStatus its constructor stores ("none" for undefined)
handleApiErrorThrown(statusCode, header) ==
    CASE statusCode = 401 ->
             [name |-> "WhatsAppAuthError", type |-> "AUTH_ERROR",
              code |-> "none", retryAfter |-> "none", httpStatus |-> 401]
      [] statusCode = 429 ->
             [name |-> "WhatsAppRateLimitError", type |-> "RATE_LIMIT",
              code |-> "none", retryAfter |-> parseRetryAfter(header),
              httpStatus |-> 429]
      [] statusCode = 400 ->
             [name |-> "WhatsAppValidationError", type |-> "VALIDATION_ERROR",
              code |-> "none", retryAfter |-> "none", httpStatus |-> 400]
      [] statusCode \in {500, 502, 503, 504} ->
             [name |-> "WhatsAppNetworkError", type |-> "NETWORK_ERROR",
              code |-> "none", retryAfter |-> "none", httpStatus |-> "none"]
      [] OTHER ->
             [name |-> "WhatsAppServiceError", type |-> "UNKNOWN_ERROR",
              code |-> "none", retryAfter |-> "none", httpStatus |-> statusCode]

\* handleError(error) in full: a WhatsAppServiceError is returned as it is
handleErrorReturned(error) ==
    IF error.name \in ServiceErrorNames
    THEN [type |-> error.type, retryAfter |-> error.retryAfter,
          httpStatus |-> error.httpStatus]
    ELSE IF error.name = "CircuitBreakerOpenError"
    THEN [type |-> "NETWORK_ERROR", retryAfter |-> "none", httpStatus |-> 503]
    ELSE IF error.code \in {"ECONNREFUSED", "ETIMEDOUT"}
    THEN [type |-> "NETWORK_ERROR", retryAfter |-> "none", httpStatus |-> "none"]
    ELSE [type |-> "UNKNOWN_ERROR", retryAfter |-> "none", httpStatus |-> "none"]

\* statuses of a response that is not ok
FailedStatuses == {400, 401, 403, 404, 429, 500, 501, 502, 503, 504, 599}

\* error codes of a fetch that rejects
TransportCodes == {"ECONNREFUSED", "ETIMEDOUT", "ENOTFOUND"}

\* a failed makeApiCall: a response that is not ok, or a rejected fetch
ApiFailureArgs ==
    { [kind |-> "apiFailure", how |-> "status", status |-> s, header |-> h,
       code |-> "none"] : s \in FailedStatuses, h \in RetryAfterHeaders }
    \cup
    { [kind |-> "apiFailure", how |-> "rejected", status |-> 0,
       header |-> [kind |-> "absent", value |-> 0], code |-> c] :
          c \in TransportCodes }

\* JavaScript values of a deal's fields: a number field is undefined or a
\* number, a string field is "undefined" (for undefined) or its text
Undefined == [kind |-> "undefined", value |-> 0]
Num(v) == [kind |-> "number", value |-> v]

\* !s for a string field
Falsy(s) == s \in {"undefined", ""}

\* !n || n <= 0 for a number field
NotPositive(n) == n.kind # "number" \/ n.value <= 0

\* errors.push(message) when the condition holds
PushIf(cond, message) == IF cond THEN <<message>> ELSE <<>>

\* validateDealData without the checks for new material
validateDealDataSaleOnly(dealData) ==
    PushIf(Falsy(dealData.saleParty), "Sale party is required")
    \o PushIf(NotPositive(dealData.quantitySold), "Valid quantity sold is required")
    \o PushIf(NotPositive(dealData.saleRate), "Valid sale rate is required")
    \o PushIf(Falsy(dealData.deliveryTerms), "Delivery terms are required")
    \o PushIf(Falsy(dealData.productCode), "Product code is required")
    \o PushIf(Falsy(dealData.materialSource), "Material source is required")

\* DealService.validateDealData(dealData): the list of error messages
validateDealData(dealData) ==
    PushIf(Falsy(dealData.saleParty), "Sale party is required")
    \o PushIf(NotPositive(dealData.quantitySold), "Valid quantity sold is required")
    \o PushIf(NotPositive(dealData.saleRate), "Valid sale rate is required")
    \o PushIf(Falsy(dealData.deliveryTerms), "Delivery terms are required")
    \o PushIf(Falsy(dealData.productCode), "Product code is required")
    \o PushIf(Falsy(dealData.materialSource), "Material source is required")
    \o IF dealData.materialSource = "new-material"
       THEN PushIf(Falsy(dealData.purchaseParty),
                   "Purchase party is required for new material")
            \o PushIf(NotPositive(dealData.quantityPurchased),
                      "Valid purchase quantity is required for new material")
            \o PushIf(NotPositive(dealData.purchaseRate),
                      "Valid purchase rate is required for new material")
       ELSE <<>>

\* validateDealForMessaging without the purchase rate check
validateDealForMessagingNoRate(d) ==
    PushIf(Falsy(d.id), "Deal ID is required")
    \o PushIf(Falsy(d.date), "Deal date is required")
    \o PushIf(Falsy(d.saleParty), "Sale party (customer) is required")
    \o PushIf(NotPositive(d.quantitySold), "Quantity sold must be positive")
    \o PushIf(NotPositive(d.saleRate), "Sale rate must be positive")
    \o PushIf(Falsy(d.deliveryTerms), "Delivery terms are required")
    \o PushIf(Falsy(d.productCode), "Product code is required")
    \o PushIf(Falsy(d.materialSource), "Material source is required")
    \o IF d.materialSource = "new-material"
       THEN PushIf(Falsy(d.purchaseParty),
                   "Purchase party is required for new material")
            \o PushIf(NotPositive(d.quantityPurchased),
                      "Purchase quantity is required for new material")
       ELSE <<>>

\* validateDealForMessaging(deal), deal written d: the list of error messages
validateDealForMessaging(d) ==
    PushIf(Falsy(d.id), "Deal ID is required")
    \o PushIf(Falsy(d.date), "Deal date is required")
    \o PushIf(Falsy(d.saleParty), "Sale party (customer) is required")
    \o PushIf(NotPositive(d.quantitySold), "Quantity sold must be positive")
    \o PushIf(NotPositive(d.saleRate), "Sale rate must be positive")
    \o PushIf(Falsy(d.deliveryTerms), "Delivery terms are required")
    \o PushIf(Falsy(d.productCode), "Product code is required")
    \o PushIf(Falsy(d.materialSource), "Material source is required")
    \o IF d.materialSource = "new-material"
       THEN PushIf(Falsy(d.purchaseParty),
                   "Purchase party is required for new material")
            \o PushIf(NotPositive(d.quantityPurchased),
                      "Purchase quantity is required for new material")
            \o PushIf(NotPositive(d.purchaseRate),
                      "Purchase rate is required for new material")
       ELSE <<>>

\* parseFloat(x) || 0
parseFloatOrZero(x) == IF x.kind = "number" THEN x ELSE Num(0)

\* POST /api/deals: the CreateDealRequest parsed from the request body
parseDealRequest(body) ==
    [ id                |-> "undefined",
      date              |-> "date",
      saleParty         |-> body.saleParty,
      quantitySold      |-> parseFloatOrZero(body.quantitySold),
      saleRate          |-> parseFloatOrZero(body.saleRate),
      deliveryTerms     |-> body.deliveryTerms,
      productCode       |-> body.productCode,
      materialSource    |-> body.materialSource,
      purchaseParty     |-> IF Falsy(body.purchaseParty) THEN ""
                            ELSE body.purchaseParty,
      quantityPurchased |-> parseFloatOrZero(body.quantityPurchased),
      purchaseRate      |-> parseFloatOrZero(body.purchaseRate) ]

\* convertFormDataToDealData(formData, dealId)
convertFormDataToDealData(formData, dealId) ==
    [ id                |-> dealId,
      date              |-> formData.date,
      saleParty         |-> formData.saleParty,
      quantitySold      |-> formData.quantitySold,
      saleRate          |-> formData.saleRate,
      deliveryTerms     |-> formData.deliveryTerms,
      productCode       |-> formData.productCode,
      materialSource    |-> formData.materialSource,
      purchaseParty     |-> IF formData.materialSource = "new-material"
                            THEN formData.purchaseParty ELSE "undefined",
      quantityPurchased |-> IF formData.materialSource = "new-material"
                            THEN formData.quantityPurchased ELSE Undefined,
      purchaseRate      |-> IF formData.materialSource = "new-material"
                            THEN formData.purchaseRate ELSE Undefined ]

\* the deals tried, field by field: a request body, or a deal handed to a
\* validator
DealFields ==
    [ id                : {"undefined", "DEAL-1"},
      date              : {"undefined", "date"},
      saleParty         : {"undefined", "", "Acme"},
      quantitySold      : {Undefined, Num(0), Num(5)},
      saleRate          : {Num(-1), Num(5)},
      deliveryTerms     : {"", "delivered"},
      productCode       : {"undefined", "P1"},
      materialSource    : {"undefined", "new-material", "from-inventory",
                           "other"},
      purchaseParty     : {"undefined", "", "Supplier"},
      quantityPurchased : {Undefined, Num(-1), Num(0), Num(5)},
      purchaseRate      : {Undefined, Num(-1), Num(0), Num(5)} ]

DealArgs == { [kind |-> "deal", deal |-> d] : d \in DealFields }

\* the largest WHATSAPP_CIRCUIT_BREAKER_THRESHOLD tried
MaxConfiguredThreshold == 3

\* config.settings as loadConfigFromEnv builds it and validateConfigOrThrow
\* accepts it: a threshold of at least 1
SettingsInputs ==
    { [circuitBreakerThreshold |-> n] : n \in 1..MaxConfiguredThreshold }

\* the defaults of the WhatsAppCircuitBreaker constructor (10 failures and
\* 5 minutes in the source, scaled)
DefaultBreakerConfig == [failureThreshold |-> failureThreshold, timeoutMs |-> timeoutMs]

\* the defaults of the WhatsAppRateLimiter constructor (80 requests and one
\* minute in the source, scaled)
DefaultLimiterConfig == [maxRequestsPerMinute |-> MaxRequests, windowMs |-> windowMs]

\* the object {}
EmptyConfig == [k \in {} |-> 0]

\* { ...defaults, ...config }
mergeConfig(defaults, config) ==
    [k \in DOMAIN defaults |-> IF k \in DOMAIN config THEN config[k] ELSE defaults[k]]

\* the WhatsAppService constructor without an injected limiter or breaker, as
\* getGlobalWhatsAppService calls it: the configurations of the two it builds
newService(settings) ==
    [ circuitBreaker |-> mergeConfig(DefaultBreakerConfig, EmptyConfig),
      rateLimiter |-> mergeConfig(DefaultLimiterConfig, EmptyConfig) ]

SettingsArgs == { [kind |-> "settings", settings |-> s] : s \in SettingsInputs }

FnArgs == SendMessageArgs \cup ApiFailureArgs \cup DealArgs \cup SettingsArgs

FnInit ==
    /\ ServiceInit
    /\ maxRequestsPerMinute = MaxRequests
    /\ env = [messaging |-> TRUE, configValid |-> TRUE]
    /\ recipients = [r \in Roles |-> ValidPhone]
    /\ fn = "none"
    /\ arg \in FnArgs
    /\ ret = NoRet

\* sendMessage up to validateInputs: what validateInputs throws ("ok" when
\* it returns), the error type of the failed result, and whether
\* sendMessage goes on to the limiter, the breaker and the transport
ApplyValidateInputs ==
    /\ fn = "none"
    /\ arg.kind = "sendMessage"
    /\ fn' = "validateInputs"
    /\ LET thrown == validateInputs(arg.phoneNumber, arg.message)
       IN  ret' = [kind |-> "validation", thrown |-> thrown,
                   type |-> IF thrown = "ok" THEN "none"
                            ELSE handleError(ValidationError),
                   goesOn |-> thrown = "ok"]
    /\ UNCHANGED <<arg, svars>>

\* the catch block of sendMessage for a failed makeApiCall: the error
\* thrown, then handleError
ApplyHandleError ==
    /\ fn = "none"
    /\ arg.kind = "apiFailure"
    /\ fn' = "handleError"
    /\ LET error == IF arg.how = "status"
                    THEN handleApiErrorThrown(arg.status, arg.header)
                    ELSE [name |-> "Error", type |-> "none", code |-> arg.code,
                          retryAfter |-> "none", httpStatus |-> "none"]
       IN  ret' = [kind |-> "error"] @@ handleErrorReturned(error)
    /\ UNCHANGED <<arg, svars>>

\* POST /api/deals up to the DealData of createDeal: the body is parsed and
\* validated; a body with errors is answered 400, any other is converted
ApplyPostDeal ==
    /\ fn = "none"
    /\ arg.kind = "deal"
    /\ fn' = "POST"
    /\ LET dealData == parseDealRequest(arg.deal)
           validationErrors == validateDealData(dealData)
       IN  ret' = IF Len(validationErrors) > 0
                  THEN [kind |-> "post", created |-> FALSE,
                        validationErrors |-> validationErrors,
                        deal |-> dealData]
                  ELSE [kind |-> "post", created |-> TRUE,
                        validationErrors |-> <<>>,
                        deal |-> convertFormDataToDealData(dealData, "DEAL-1")]
    /\ UNCHANGED <<arg, svars>>

\* both validators, called with the same deal
ApplyValidateDeal ==
    /\ fn = "none"
    /\ arg.kind = "deal"
    /\ fn' = "validateDeal"
    /\ ret' = [kind |-> "errors",
               data |-> validateDealData(arg.deal),
               messaging |-> validateDealForMessaging(arg.deal)]
    /\ UNCHANGED <<arg, svars>>

\* getGlobalWhatsAppService() on first use, with the configuration loaded
\* from the environment
ApplyNewService ==
    /\ fn = "none"
    /\ arg.kind = "settings"
    /\ fn' = "newService"
    /\ ret' = [kind |-> "service"] @@ newService(arg.settings)
    /\ UNCHANGED <<arg, svars>>

FnNext ==
    \/ ApplyValidateInputs
    \/ ApplyHandleError
    \/ ApplyPostDeal
    \/ ApplyValidateDeal
    \/ ApplyNewService

FnSpec == FnInit /\ [][FnNext]_vars

(***************************************************************************)
(* The service under the assumptions of the event loop: what can run does  *)
(* run, every downstream call settles, and the clock goes on to the next   *)
(* pending timer.                                                          *)
(***************************************************************************)
\* the clock, past the last tick of Tick, goes on while a timer is pending
TimerTick ==
    /\ now >= StartTime + MaxTicks
    /\ ~MicrotaskPending
    /\ \E r \in Roles : pc[r] = "sleeping"
    /\ \A r \in Roles : pc[r] = "sleeping" => wakeAt[r] > now
    /\ now' = now + 1
    /\ UNCHANGED <<maxRequestsPerMinute, requests, breaker, env, recipients,
                   service, dealPc, deal, deals, results, errors, cdResult, pc,
                   failing, wakeAt, admittedIn, rejectedUntil, result, proceeds,
                   streak, streakStart, resetInStreak, dealStart>>
    /\ UNCHANGED <<fnvars, forcedAt>>

\* everything the event loop does for a createDeal call under way
Progress ==
    \/ \E r \in Roles : SendStart(r)
    \/ \E r \in Roles : TimerFire(r)
    \/ \E r \in Roles : Admit(r)
    \/ \E r \in Roles, outcome \in Outcomes : Settle(r, outcome)
    \/ Return
    \/ Tick
    \/ TimerTick

LiveNext ==
    \/ Next
    \/ TimerTick

LiveSpec == Init /\ [][LiveNext]_vars /\ WF_vars(Progress)

(***************************************************************************)
(* The rate limiter on its own: callers of waitIfNeeded, getStatus and     *)
(* simulateRequests (the testing aid), and the clock.  The breaker and     *)
(* the createDeal call stay as constructed.                                *)
(***************************************************************************)
\* the limiter's variables
lvars == <<now, requests>>

\* everything but the limiter's variables
nonlvars == <<maxRequestsPerMinute, breaker, env, recipients, service, dealPc,
              deal, deals, results, errors, cdResult, pc, failing, wakeAt,
              admittedIn, rejectedUntil, result, proceeds, streak, streakStart,
              resetInStreak, dealStart, forcedAt>>

LimiterInit ==
    /\ ServiceInit
    /\ env = [messaging |-> TRUE, configValid |-> TRUE]
    /\ recipients = [r \in Roles |-> ValidPhone]
    /\ fn = "none"
    /\ arg = NoArg
    /\ ret = NoRet

\* waitIfNeeded(): the caller is recorded, or (limited) suspended; a
\* suspended caller changes nothing when it resumes
LimiterWaitIfNeeded ==
    /\ LET status == getStatus(requests, now, maxRequestsPerMinute)
       IN  requests' = IF status.current = "limited"
                       THEN status.requests
                       ELSE recordRequest(status.requests, now,
                                          maxRequestsPerMinute)
    /\ UNCHANGED <<now, nonlvars, fnvars>>

\* simulateRequests(count): pushes now, now - 1000, ... in this order
SimulateRequests(count) ==
    /\ Len(requests) + count <= 2 * MaxRequests
    /\ requests' = requests \o [i \in 1..count |-> now - (i - 1) * SimulatedSpacing]
    /\ UNCHANGED <<now, nonlvars, fnvars>>

\* getStatus(), called on its own: arg keeps the window and the time of the
\* call, ret what it returned
LimiterGetStatus ==
    /\ fn' = "getStatus"
    /\ arg' = [kind |-> "getStatus", requests |-> requests, now |-> now,
               limit |-> maxRequestsPerMinute]
    /\ ret' = getStatus(requests, now, maxRequestsPerMinute)
    /\ requests' = cleanOldRequests(requests, now)
    /\ UNCHANGED <<now, nonlvars>>

LimiterTick ==
    /\ now < StartTime + MaxTicks
    /\ now' = now + 1
    /\ UNCHANGED <<requests, nonlvars, fnvars>>

LimiterNext ==
    \/ LimiterWaitIfNeeded
    \/ \E count \in 1..MaxSimulated : SimulateRequests(count)
    \/ LimiterGetStatus
    \/ LimiterTick

LimiterSpec == LimiterInit /\ [][LimiterNext]_vars

(***************************************************************************)
(* The circuit breaker on its own: callers of execute(), whose operations  *)
(* settle in any order and either way, reset() and forceOpen() (manual     *)
(* intervention), and the clock.  pc, admittedIn and rejectedUntil are     *)
(* those of the callers; the limiter and createDeal stay as constructed.   *)
(***************************************************************************)
\* ticks the clock advances after StartTime when the breaker runs alone
BreakerTicks == 4

\* the callers of execute()
Callers == {"accounts", "logistics"}

\* the breaker's variables
bvars == <<now, breaker, pc, admittedIn, rejectedUntil, result, forcedAt>>

\* everything but the breaker's variables
nonbvars == <<maxRequestsPerMinute, requests, env, recipients, service, dealPc,
              deal, deals, results, errors, cdResult, failing, wakeAt,
              proceeds, streak, streakStart, resetInStreak, dealStart>>

BreakerInit ==
    /\ ServiceInit
    /\ maxRequestsPerMinute = MaxRequests
    /\ env = [messaging |-> TRUE, configValid |-> TRUE]
    /\ recipients = [r \in Roles |-> ValidPhone]
    /\ fn = "none"
    /\ arg = NoArg
    /\ ret = NoRet

\* execute(operation), up to the await of operation(): rejected, or admitted
\* with the operation started
Execute(r) ==
    /\ pc[r] = "idle"
    /\ LET e == executeAdmit(breaker, now)
       IN  IF e.admitted
           THEN /\ breaker' = e.cb
                /\ admittedIn' = [admittedIn EXCEPT ![r] = breaker.state]
                /\ pc' = [pc EXCEPT ![r] = "inflight"]
                /\ forcedAt' = IF breaker.state = "OPEN" THEN -1 ELSE forcedAt
                /\ UNCHANGED rejectedUntil
           ELSE /\ rejectedUntil' =
                       [rejectedUntil EXCEPT ![r] = getNextAttemptTime(breaker)]
                /\ UNCHANGED <<breaker, admittedIn, pc, forcedAt>>
    /\ UNCHANGED <<now, result, nonbvars, fnvars>>

\* the operation settles: onSuccess() or onFailure(), execute() returns or
\* rethrows
OperationSettles(r, ok) ==
    /\ pc[r] = "inflight"
    /\ breaker' = IF ok THEN onSuccess(breaker, now) ELSE onFailure(breaker, now)
    /\ pc' = [pc EXCEPT ![r] = "idle"]
    /\ admittedIn' = [admittedIn EXCEPT ![r] = "none"]
    /\ result' = [result EXCEPT ![r] = IF ok THEN Success
                                        ELSE Failure(thrownBy("http500"))]
    /\ forcedAt' = IF breaker.state = "OPEN" THEN forcedAt ELSE -1
    /\ UNCHANGED <<now, rejectedUntil, nonbvars, fnvars>>

\* reset(): manual intervention
Reset ==
    /\ breaker' = resetCounters(transitionTo(breaker, "CLOSED", now))
    /\ forcedAt' = -1
    /\ UNCHANGED <<now, pc, admittedIn, rejectedUntil, result, nonbvars, fnvars>>

\* forceOpen(): maintenance
ForceOpen ==
    /\ breaker' = transitionTo(breaker, "OPEN", now)
    /\ forcedAt' = now
    /\ UNCHANGED <<now, pc, admittedIn, rejectedUntil, result, nonbvars, fnvars>>

BreakerTick ==
    /\ now < StartTime + BreakerTicks
    /\ now' = now + 1
    /\ UNCHANGED <<breaker, pc, admittedIn, rejectedUntil, result, forcedAt,
                   nonbvars, fnvars>>

BreakerNext ==
    \/ \E r \in Callers : Execute(r)
    \/ \E r \in Callers, ok \in BOOLEAN : OperationSettles(r, ok)
    \/ Reset
    \/ ForceOpen
    \/ BreakerTick

BreakerSpec == BreakerInit /\ [][BreakerNext]_vars

(***************************************************************************)
(* Properties.                                                             *)
(***************************************************************************)
\* execute() called role r's operation(): the transport was invoked
Invoked(r) == admittedIn[r] # "none"

\* role r's message renders and passes the checks sendMessage makes first
InputsValid(r) ==
    /\ deal.dateValid
    /\ validateInputs(recipients[r], generateMessage(r, deal)) = "ok"

\* every role's send of the fan-out is over
SendsOver == \A r \in Roles : pc[r] = "done"

\* the step in which an executed operation settles as a failure
FailureSettles ==
    \E r \in Roles : pc[r] = "inflight" /\ pc'[r] = "done" /\ ~result'[r].success

\* the operations in flight that execute() admitted for a breaker it found
\* OPEN (and made HALF_OPEN) or HALF_OPEN
TrialsInFlight ==
    { r \in Roles : pc[r] = "inflight" /\ admittedIn[r] \in {"OPEN", "HALF_OPEN"} }

\* C1: of the callers of waitIfNeeded(), suspended ones included, at most
\* maxRequestsPerMinute are let go on within any interval shorter than the
\* window (proceeds holds the times, within one window, at which a caller
\* was let go on).
C1_AtMostMaxPerWindow == Len(proceeds) <= maxRequestsPerMinute

\* C2: once failureThreshold executed operations have failed in a row,
\* the first of them with the breaker CLOSED, the breaker is OPEN after the
\* last of these failures, whatever the calls before.
C2_OpenAfterThreshold ==
    [][ ( FailureSettles /\ streak' = failureThreshold /\ streakStart' = "CLOSED" )
            => breaker'.state = "OPEN" ]_vars

\* C2, amended: the same, for a run of failures during which cleanOldMetrics
\* did not reset the counters.
C2_OpenAfterThresholdNoReset ==
    [][ ( FailureSettles /\ streak' = failureThreshold /\ streakStart' = "CLOSED"
          /\ ~resetInStreak' )
            => breaker'.state = "OPEN" ]_vars

C2_Witness ==
    /\ streak = failureThreshold
    /\ streakStart = "CLOSED"
    /\ ~resetInStreak
    /\ breaker.state = "OPEN"
    /\ breaker.failures = failureThreshold

\* C3: while the breaker is HALF_OPEN at most one operation admitted for
\* the trial is in flight: a further execute() does not invoke its operation.
C3_OneTrialInHalfOpen ==
    breaker.state = "HALF_OPEN" => Cardinality(TrialsInFlight) <= 1

\* C4: when the trial call (the one whose execute() moved the breaker from
\* OPEN to HALF_OPEN) succeeds, the breaker is CLOSED with failures,
\* successes and requests zero; when it fails, the breaker is OPEN and
\* execute() rejects.
C4_TrialDecides ==
    [][ \A r \in Roles :
          ( pc[r] = "inflight" /\ admittedIn[r] = "OPEN" /\ pc'[r] = "done" )
            => IF result'[r].success
               THEN /\ breaker'.state = "CLOSED"
                    /\ breaker'.failures = 0
                    /\ breaker'.successes = 0
                    /\ breaker'.requests = 0
               ELSE /\ breaker'.state = "OPEN"
                    /\ ~executeAdmit(breaker', now).admitted ]_vars

\* C5: an execute() that finds the breaker OPEN less than timeoutMs after
\* the last failure is rejected without invoking its operation; the error
\* carries lastFailureTime + timeoutMs, and the breaker is left as it was.
C5_OpenRejects ==
    [][ \A r \in Roles :
          ( /\ pc[r] = "resumed" /\ pc'[r] # "resumed"
            /\ breaker.state = "OPEN"
            /\ now - breaker.lastFailureTime < timeoutMs )
            => ( /\ pc'[r] = "done"
                 /\ ~result'[r].success
                 /\ admittedIn'[r] = "none"
                 /\ rejectedUntil'[r] = breaker.lastFailureTime + timeoutMs
                 /\ breaker' = breaker ) ]_vars

C5_Witness ==
    \E r \in Roles :
        /\ pc[r] = "done"
        /\ rejectedUntil[r] >= 0
        /\ breaker.state = "OPEN"
        /\ now - breaker.lastFailureTime < timeoutMs

\* C6: sendDealNotifications returns only once every role's send is over,
\* and every role has its result: no send is skipped or cancelled.
C6_ReturnsAfterAllSettle ==
    [][ ( dealPc = "awaiting" /\ dealPc' = "returned" )
            => ( /\ SendsOver
                 /\ \A r \in Roles : \E x \in results : x.role = r ) ]_vars

C6_Witness ==
    /\ dealPc = "returned"
    /\ SendsOver
    /\ \E r \in Roles : Invoked(r) /\ ~result[r].success
    /\ \E r \in Roles : Invoked(r) /\ result[r].success

\* C7: in a fan-out started with the breaker CLOSED in which the transport
\* fails exactly one role, every other role with valid inputs has its call
\* invoked and is reported as a success, whatever the limiter's state.
C7_OthersUnaffected ==
    ( SendsOver /\ dealStart.state = "CLOSED" /\ Cardinality(failing) = 1 )
        => \A r \in Roles \ failing :
               InputsValid(r) => Invoked(r) /\ result[r].success

\* C7, amended: the same, for a fan-out started with a free slot of the
\* limiter for each of its sends, so that the limiter delays none of them.
C7_OthersUnaffectedWithRoom ==
    ( /\ SendsOver
      /\ dealStart.state = "CLOSED"
      /\ Cardinality(failing) = 1
      /\ dealStart.remaining >= Cardinality({ r \in Roles : InputsValid(r) }) )
        => \A r \in Roles \ failing :
               InputsValid(r) => Invoked(r) /\ result[r].success

C7_Witness ==
    /\ SendsOver
    /\ dealStart.state = "CLOSED"
    /\ Cardinality(failing) = 1
    /\ dealStart.remaining >= Cardinality(Roles)
    /\ \A r \in Roles : InputsValid(r)
    /\ \E r \in failing : Invoked(r) /\ ~result[r].success
    /\ breaker.state = "OPEN"
    /\ \A r \in Roles \ failing : result[r].success

\* the fan-out of C8: it has returned, all four recipients are valid
\* numbers, messaging is enabled, and it was started with the breaker CLOSED
C8_Case ==
    /\ dealPc = "returned"
    /\ SendsOver
    /\ env.messaging
    /\ \A r \in Roles : recipients[r] = ValidPhone
    /\ dealStart.state = "CLOSED"

\* what C8 says of the counts: four results, successCount the number of
\* roles whose downstream call succeeded, failureCount the number of roles
\* whose call failed, four in all
C8_Counts ==
    /\ Cardinality(results) = Cardinality(Roles)
    /\ cdResult.successCount =
           Cardinality({ r \in Roles : Invoked(r) /\ r \notin failing })
    /\ cdResult.failureCount =
           Cardinality({ r \in Roles : Invoked(r) /\ r \in failing })
    /\ cdResult.successCount + cdResult.failureCount = Cardinality(Roles)

\* C8: with the four recipients valid, messaging enabled, the breaker
\* CLOSED and at least one free slot in the limiter, the counts are these.
C8_FourResults == ( C8_Case /\ dealStart.remaining > 0 ) => C8_Counts

\* C8, amended: the same, for a deal whose four messages render and are
\* within the length limit, and a limiter with a free slot for each send.
C8_FourResultsWithRoom ==
    ( /\ C8_Case
      /\ \A r \in Roles : InputsValid(r)
      /\ dealStart.remaining >= Cardinality(Roles) )
        => C8_Counts

C8_Witness ==
    /\ C8_Case
    /\ \A r \in Roles : InputsValid(r)
    /\ dealStart.remaining >= Cardinality(Roles)
    /\ failing = {}
    /\ cdResult.successCount = Cardinality(Roles)
    /\ cdResult.failureCount = 0

\* C9: createDeal returns success = true and a dealId, whatever became of
\* the notifications.
C9_DealAlwaysSucceeds ==
    dealPc = "returned" => cdResult.success /\ cdResult.dealId

C9_Witness ==
    /\ dealPc = "returned"
    /\ service = "none"
    /\ cdResult.enabled
    /\ cdResult.failureCount = AssumedRecipients
    /\ cdResult.success

\* C10: sendMessage with a phone number that does not start with '+' ends
\* with a validation failure; the transport is not invoked, the limiter
\* records nothing and the breaker is left as it was.
C10_NoPlusFailsFast ==
    [][ \A r \in Roles :
          ( /\ pc[r] = "start" /\ pc'[r] # "start"
            /\ deal.dateValid
            /\ ~recipients[r].plus )
            => ( /\ pc'[r] = "done"
                 /\ ~result'[r].success
                 /\ result'[r].type = "VALIDATION_ERROR"
                 /\ admittedIn'[r] = "none"
                 /\ requests' = requests
                 /\ breaker' = breaker ) ]_vars

C10_Witness ==
    \E r \in Roles :
        /\ recipients[r] = RawPhone
        /\ pc[r] = "done"
        /\ result[r].type = "VALIDATION_ERROR"
        /\ ~Invoked(r)
        /\ \E q \in Roles : Invoked(q)

\* the step in which createDeal is called
DealCalled == deals' = deals + 1

\* C11: with the feature toggle off, createDeal makes no delivery attempt
\* (no send is started, the limiter records nothing, the breaker and the
\* transport are not called) and reports notifications as disabled, with
\* successCount = 0, failureCount = 0 and no errors.
C11_DisabledDoesNothing ==
    [][ ( DealCalled /\ ~env.messaging )
            => ( /\ dealPc' = "returned"
                 /\ cdResult'.success
                 /\ ~cdResult'.enabled
                 /\ cdResult'.successCount = 0
                 /\ cdResult'.failureCount = 0
                 /\ cdResult'.errors = 0
                 /\ UNCHANGED <<requests, breaker, pc, results, errors,
                                admittedIn, proceeds, service>> ) ]_vars

C11_Witness ==
    /\ ~env.messaging
    /\ deals = MaxDeals
    /\ dealPc = "returned"
    /\ ~cdResult.enabled
    /\ cdResult.failureCount = 0
    /\ service = "none"

\* C12: a caller of waitIfNeeded() that found the limiter exhausted sleeps
\* for the wait time and then registers its own request in the window
\* before it proceeds.
C12_DelayedCallerRegisters ==
    [][ \A r \in Roles :
          ( pc[r] = "sleeping" /\ pc'[r] = "resumed" )
            => ( /\ now >= wakeAt[r]
                 /\ Len(requests') = Len(cleanOldRequests(requests, now)) + 1
                 /\ requests'[Len(requests')] = now ) ]_vars

\* C13: a send rejected by the open breaker is reported with an error that
\* is not classified as a network error and that carries the breaker's
\* next-attempt time.
C13_BreakerOpenReported ==
    \A r \in Roles :
        ( pc[r] = "done" /\ rejectedUntil[r] >= 0 )
            => ( /\ ~result[r].success
                 /\ result[r].type # "NETWORK_ERROR"
                 /\ result[r].nextAttemptTime = rejectedUntil[r] )

\* C14: a role whose phone number is empty in the configuration is skipped
\* by sendDealNotifications: it gets no result and is counted neither in
\* successCount nor in failureCount.
C14_EmptyRecipientSkipped ==
    ( dealPc = "returned" /\ SendsOver )
        => ( /\ \A r \in Roles :
                   recipients[r] = EmptyPhone => ~\E x \in results : x.role = r
             /\ cdResult.successCount + cdResult.failureCount =
                    Cardinality({ r \in Roles : recipients[r] # EmptyPhone }) )

\* C15: sendMessage goes on to the network only with a phone number that
\* is a '+' followed by 10 to 15 digits and a message of at most 4096
\* characters; any other input ends in a validation error.
C15_OnlyWellFormedAccepted ==
    fn = "validateInputs"
        => IF /\ arg.phoneNumber.plus
              /\ arg.phoneNumber.digits
              /\ arg.phoneNumber.len - 1 >= MinDigits
              /\ arg.phoneNumber.len - 1 <= MaxDigits
              /\ arg.message.len <= MaxMessageLength
           THEN TRUE
           ELSE ~ret.goesOn /\ ret.type = "VALIDATION_ERROR"

\* C16: for a deal that lacks a required field, createDeal's notification
\* path sends no role message: the deal is rejected before any message is
\* rendered, so no send reaches the limiter or the transport.
C16_IncompleteDealNotSent ==
    ~deal.complete
        => ( /\ \A r \in Roles : ~Invoked(r) /\ ~result[r].success
             /\ requests = <<>> )

\* the requests of the call's window that are no older than the window
TrackedInWindow ==
    { i \in 1..Len(arg.requests) : arg.requests[i] > arg.now - windowMs }

\* when the oldest of them was made
OldestTracked ==
    CHOOSE t \in { arg.requests[i] : i \in TrackedInWindow } :
        \A i \in TrackedInWindow : t <= arg.requests[i]

\* C17: getStatus() drops the requests older than the window, reports
\* 'limited' exactly when the tracked requests in the window are at least
\* maxRequestsPerMinute, reports remaining = max(0, maxRequestsPerMinute
\* minus their number), and when limited a waitTime that is the time until
\* the oldest tracked request leaves the window, however the window was
\* filled (simulateRequests included).
C17_StatusMatchesWindow ==
    fn = "getStatus"
        => ( /\ Len(ret.requests) = Cardinality(TrackedInWindow)
             /\ (ret.current = "limited")
                    = (Cardinality(TrackedInWindow) >= arg.limit)
             /\ ret.remaining = Max(0, arg.limit - Cardinality(TrackedInWindow))
             /\ ret.current = "limited"
                    => /\ ret.waitTime >= 0
                       /\ ret.waitTime = windowMs - (arg.now - OldestTracked) )

\* C18: a failed downstream call is classified by HTTP status or transport
\* outcome: 401 is an auth error, 429 a rate-limit error carrying the
\* Retry-After seconds, 400 a validation error, every status from 500 to 599
\* a network/server error, connection refused or timeout a network error,
\* anything else an unknown error.
C18_FailureClassified ==
    fn = "handleError"
        => ( ret.type =
               CASE arg.how = "status" /\ arg.status = 401 -> "AUTH_ERROR"
                 [] arg.how = "status" /\ arg.status = 429 -> "RATE_LIMIT"
                 [] arg.how = "status" /\ arg.status = 400 -> "VALIDATION_ERROR"
                 [] arg.how = "status" /\ arg.status \in 500..599 -> "NETWORK_ERROR"
                 [] arg.how = "rejected" /\ arg.code \in {"ECONNREFUSED", "ETIMEDOUT"}
                        -> "NETWORK_ERROR"
                 [] OTHER -> "UNKNOWN_ERROR" )
           /\ ( (arg.how = "status" /\ arg.status = 429
                    /\ arg.header.kind = "seconds")
                    => (ret.retryAfter = arg.header.value) )

\* the three purchase fields of a DealData
PurchaseFieldsPresent(d) ==
    /\ ~Falsy(d.purchaseParty)
    /\ ~NotPositive(d.quantityPurchased)
    /\ ~NotPositive(d.purchaseRate)

PurchaseFieldsAbsent(d) ==
    /\ d.purchaseParty = "undefined"
    /\ d.quantityPurchased = Undefined
    /\ d.purchaseRate = Undefined

\* C19: every DealData produced by deal creation has purchaseParty,
\* quantityPurchased and purchaseRate present and positive if and only if
\* its materialSource is 'new-material'; for 'from-inventory' all three are
\* absent.
C19_PurchaseFieldsIffNewMaterial ==
    (fn = "POST" /\ ret.created)
        => ( /\ PurchaseFieldsPresent(ret.deal)
                    = (ret.deal.materialSource = "new-material")
             /\ (ret.deal.materialSource = "from-inventory")
                    => PurchaseFieldsAbsent(ret.deal) )

\* a new-material deal is created, and an inventory deal whose body carried
\* purchase fields would be too
C19_Witness ==
    /\ fn = "POST"
    /\ ret.created
    /\ ret.deal.materialSource = "new-material"
    /\ ret.deal.purchaseRate = Num(5)

\* the field an error message is about
FieldNamed(message) ==
    CASE message = "Deal ID is required" -> "id"
      [] message = "Deal date is required" -> "date"
      [] message \in {"Sale party is required",
                      "Sale party (customer) is required"} -> "saleParty"
      [] message \in {"Valid quantity sold is required",
                      "Quantity sold must be positive"} -> "quantitySold"
      [] message \in {"Valid sale rate is required",
                      "Sale rate must be positive"} -> "saleRate"
      [] message = "Delivery terms are required" -> "deliveryTerms"
      [] message = "Product code is required" -> "productCode"
      [] message = "Material source is required" -> "materialSource"
      [] message = "Purchase party is required for new material" -> "purchaseParty"
      [] message \in {"Valid purchase quantity is required for new material",
                      "Purchase quantity is required for new material"}
             -> "quantityPurchased"
      [] message \in {"Valid purchase rate is required for new material",
                      "Purchase rate is required for new material"}
             -> "purchaseRate"
      [] OTHER -> "none"

FieldsNamed(errs) == { FieldNamed(errs[i]) : i \in 1..Len(errs) }

\* a string field is there, a number field is there and positive
Present(s) == s # "undefined" /\ s # ""
Positive(n) == n.kind = "number" /\ n.value > 0

\* the required fields both validators look at are present and valid
SharedFieldsValid(d) ==
    /\ Present(d.saleParty)
    /\ Positive(d.quantitySold)
    /\ Positive(d.saleRate)
    /\ Present(d.deliveryTerms)
    /\ Present(d.productCode)
    /\ Present(d.materialSource)
    /\ (d.materialSource = "new-material")
           => /\ Present(d.purchaseParty)
              /\ Positive(d.quantityPurchased)
              /\ Positive(d.purchaseRate)

\* C20: deal validation returns an error naming the purchase rate exactly
\* when materialSource is 'new-material' and purchaseRate is missing or not
\* positive; it returns an empty list exactly when every required field is
\* present and valid; validateDealData and validateDealForMessaging agree on
\* this for the fields they share (validateDealForMessaging also requires
\* id and date).
C20_ValidatorsAgree ==
    fn = "validateDeal"
        => LET d == arg.deal
               rateBad == d.materialSource = "new-material"
                              /\ ~Positive(d.purchaseRate)
           IN  /\ ("purchaseRate" \in FieldsNamed(ret.data)) = rateBad
               /\ ("purchaseRate" \in FieldsNamed(ret.messaging)) = rateBad
               /\ (ret.data = <<>>) = SharedFieldsValid(d)
               /\ (ret.messaging = <<>>)
                      = (SharedFieldsValid(d) /\ Present(d.id) /\ Present(d.date))
               /\ FieldsNamed(ret.data) = FieldsNamed(ret.messaging) \ {"id", "date"}
               /\ "none" \notin FieldsNamed(ret.data) \cup FieldsNamed(ret.messaging)

\* a new-material deal whose only fault is the missing purchase rate: both
\* validators return the one error
C20_Witness ==
    /\ fn = "validateDeal"
    /\ arg.deal.materialSource = "new-material"
    /\ arg.deal.purchaseRate = Undefined
    /\ ret.data = <<"Valid purchase rate is required for new material">>
    /\ ret.messaging = <<"Purchase rate is required for new material">>

\* C21: a call admitted while the breaker was CLOSED that settles after the
\* breaker has moved away does not decide recovery: only the outcome of a
\* call admitted for the HALF_OPEN breaker moves it from HALF_OPEN to CLOSED
\* or back to OPEN.
C21_StaleCallDoesNotDecide ==
    [][ \A r \in Roles :
          ( /\ pc[r] = "inflight" /\ pc'[r] = "done"
            /\ breaker.state = "HALF_OPEN"
            /\ breaker'.state # "HALF_OPEN" )
            => admittedIn[r] \in {"OPEN", "HALF_OPEN"} ]_vars

\* C22: when the breaker is OPEN and more than timeoutMs has passed since
\* the last recorded failure, the next execute() moves the breaker to
\* HALF_OPEN and invokes its operation; and no step of execute() takes the
\* breaker from OPEN to CLOSED (only reset(), which leaves the callers as
\* they are, does).
C22_OpenToHalfOpenFirst ==
    /\ [] ( ( breaker.state = "OPEN" /\ now - breaker.lastFailureTime > timeoutMs )
              => ( /\ executeAdmit(breaker, now).admitted
                   /\ executeAdmit(breaker, now).cb.state = "HALF_OPEN" ) )
    /\ [][ /\ \A r \in Callers :
                ( /\ pc[r] = "idle" /\ pc'[r] = "inflight"
                  /\ breaker.state = "OPEN" )
                  => ( breaker'.state = "HALF_OPEN" /\ admittedIn'[r] = "OPEN" )
           /\ ( breaker.state = "OPEN" /\ breaker'.state = "CLOSED" )
                  => pc' = pc ]_vars

\* an execute() found the breaker OPEN more than timeoutMs after the last
\* failure: its operation is in flight and the breaker HALF_OPEN
C22_Witness ==
    /\ breaker.state = "HALF_OPEN"
    /\ breaker.lastFailureTime > 0
    /\ now - breaker.lastFailureTime > timeoutMs
    /\ breaker.stateChangedAt = now
    /\ \E r \in Callers : pc[r] = "inflight" /\ admittedIn[r] = "OPEN"

\* C23: in every reachable state of the breaker requests = successes +
\* failures and, outcomes being what changes the counters, requests does not
\* exceed the reset bound; each operation that settles adds one to requests
\* and one to exactly one of successes and failures, unless the counters are
\* reset in the same step.
C23_CountersConsistent ==
    /\ [] ( /\ breaker.requests = breaker.successes + breaker.failures
            /\ breaker.requests <= CounterResetLimit )
    /\ [][ \A r \in Callers :
             ( pc[r] = "inflight" /\ pc'[r] = "idle" )
               => \/ /\ breaker'.requests = 0
                     /\ breaker'.successes = 0
                     /\ breaker'.failures = 0
                  \/ /\ breaker'.requests = breaker.requests + 1
                     /\ \/ /\ breaker'.successes = breaker.successes + 1
                           /\ breaker'.failures = breaker.failures
                        \/ /\ breaker'.successes = breaker.successes
                           /\ breaker'.failures = breaker.failures + 1 ]_vars

\* the counters stand at the reset bound, with outcomes of both kinds counted
C23_Witness ==
    /\ breaker.requests = CounterResetLimit
    /\ breaker.successes > 0
    /\ breaker.failures > 0
    /\ \E r \in Callers : pc[r] = "inflight"

\* C24: the breaker the delivery service uses opens after the configured
\* failure threshold (settings.circuitBreakerThreshold), for every
\* configured value of at least 1.
C24_ConfiguredThresholdUsed ==
    fn = "newService"
        => ret.circuitBreaker.failureThreshold = arg.settings.circuitBreakerThreshold

\* C25: in every reachable state, a CLOSED breaker has counted fewer than
\* failureThreshold failures, whatever the interleaving of outcomes,
\* reset(), forceOpen() and counter resets.
C25_ClosedBelowThreshold ==
    breaker.state = "CLOSED" => breaker.failures < failureThreshold

\* a breaker that has been open and was closed again, one failure short of
\* the threshold
C25_Witness ==
    /\ breaker.state = "CLOSED"
    /\ breaker.stateChangedAt > StartTime
    /\ breaker.failures = failureThreshold - 1
    /\ breaker.lastFailureTime >= breaker.stateChangedAt

\* C26: while the breaker is CLOSED a successful call leaves the failure
\* count as it is (unless cleanOldMetrics resets the counters in that call),
\* and the failure that brings the count since the last counter reset to
\* failureThreshold opens the breaker, successes in between or not.
C26_SuccessKeepsFailures ==
    [][ \A r \in Callers :
          ( pc[r] = "inflight" /\ pc'[r] = "idle" /\ breaker.state = "CLOSED" )
            => /\ ( result'[r].success /\ breaker.requests < CounterResetLimit )
                      => ( /\ breaker'.failures = breaker.failures
                           /\ breaker'.state = "CLOSED" )
               /\ ( ~result'[r].success
                    /\ breaker.failures + 1 >= failureThreshold )
                      => breaker'.state = "OPEN" ]_vars

\* the breaker was opened by the failure that reached the threshold, with
\* successes counted among the same requests
C26_Witness ==
    /\ breaker.state = "OPEN"
    /\ forcedAt = -1
    /\ breaker.failures = failureThreshold
    /\ breaker.successes > 0
    /\ breaker.lastFailureTime = breaker.stateChangedAt
    /\ \E r \in Callers : pc[r] = "idle" /\ ~result[r].success /\ result[r].type # "pending"

\* C27: after forceOpen(), execute() rejects every call without invoking its
\* operation until timeoutMs has passed since the breaker was forced open,
\* also when no failure was ever recorded or the last one is older than
\* timeoutMs.
C27_ForcedOpenHolds ==
    [][ ( /\ forcedAt >= 0
          /\ breaker.state = "OPEN"
          /\ now - forcedAt < timeoutMs )
            => \A r \in Callers : ~( pc[r] = "idle" /\ pc'[r] = "inflight" ) ]_vars

\* the members of WhatsAppErrorType
WhatsAppErrorTypes == {"AUTH_ERROR", "RATE_LIMIT", "INVALID_RECIPIENT",
                       "NETWORK_ERROR", "VALIDATION_ERROR", "QUOTA_EXCEEDED",
                       "UNKNOWN_ERROR"}

\* C28: sendMessage never rejects: whatever made a send fail, it is over
\* with a result that has success = false and a classified error; so when
\* sendDealNotifications returns, errors has as many entries as failureCount
\* counts and results has one entry for each recipient entry of the
\* configuration.
C28_EverySendResolves ==
    /\ [] ( \A r \in Roles :
              pc[r] = "done"
                => /\ result[r].success \/ result[r].type \in WhatsAppErrorTypes
                   /\ [role |-> r, success |-> result[r].success] \in results
                   /\ ~result[r].success
                          => [role |-> r, type |-> result[r].type] \in errors )
    /\ [][ ( dealPc = "awaiting" /\ dealPc' = "returned" )
             => ( /\ cdResult'.errors = cdResult'.failureCount
                  /\ Cardinality(errors) = Count(results, FALSE)
                  /\ Cardinality(results) = Cardinality(DOMAIN recipients) ) ]_vars

\* a fan-out has returned in which one send failed validation (the empty
\* recipient), one was rejected by the breaker or failed in the transport,
\* and the counts agree
C28_Witness ==
    /\ dealPc = "returned"
    /\ SendsOver
    /\ cdResult.failureCount = cdResult.errors
    /\ \E r \in Roles : result[r].type = "VALIDATION_ERROR"
    /\ \E r \in Roles : result[r].type = "NETWORK_ERROR"
    /\ \E r \in Roles : result[r].success

C30_EveryDealReturns == (dealPc = "awaiting") ~> (dealPc = "returned")

\* a fan-out started with the limiter exhausted and the breaker OPEN has
\* returned: its sends waited for their timers and were rejected or sent
C30_Witness ==
    /\ dealPc = "returned"
    /\ SendsOver
    /\ dealStart.remaining = 0
    /\ dealStart.state = "OPEN"
    /\ \E r \in Roles : wakeAt[r] > StartTime + MaxTicks

====
